---- MODULE Spec2Model ----
(***************************************************************************)
(* SMART-on-FHIR launch client.                                            *)
(*                                                                         *)
(*   LaunchController  : the onMount sequence of the launch component      *)
(*                       (new-launch detection, restoration, code          *)
(*                       exchange, fresh authorization) over localStorage. *)
(*   ObservationFeed   : getVitals / loadMore / createTemperatureObservation*)
(*                       of the paginated ObservationViewer.               *)
(*                                                                         *)
(* A synchronous block of JavaScript runs to completion, so every action   *)
(* is one handler from its start to its first await (or its end), or the   *)
(* continuation of one await.                                              *)
(*                                                                         *)
(* Of the viewer's variables, createSuccess (a banner flag no handler      *)
(* reads) is left out, and temperatureValue is the `text` the submit       *)
(* handler is called with (bind:value writes it before the click).         *)
(***************************************************************************)
EXTENDS Integers, Sequences, FiniteSets, Bags, TLC

VARIABLES
    \* ---- LaunchController ----
    ls,         \* localStorage: token, iss, tokenEndpoint, currentLaunch
    pc,         \* per tab: where the onMount sequence of the current page is
    url,        \* per tab: the query parameters of the current page
    token,      \* per tab: the component's `token`
    baseUrl,    \* per tab: the component's `baseUrl`
    ran,        \* per tab: the entry scenarios the current load went into
    takeover,   \* per tab: the current load called clearAuthData
    err,        \* per tab: the error the current load threw
    reqs,       \* per tab: the requests the current load issued
    nav,        \* per tab: the URL the current load navigated to
    before,     \* per tab: localStorage as the current load found it
    \* ---- ObservationFeed (the component's variables) ----
    vitalObservations, loading, error, showCreateForm, creating, createError,
    currentPage, displayedObservations, allObservations, isLoadingMore,
    hasMoreOnServer, nextUrl, lastFetchTime,
    \* ---- ObservationFeed (its environment) ----
    mounted,    \* onMount of the viewer has run
    engine,     \* the Array.prototype.sort of the browser
    now,        \* the clock behind Date.now() and new Date()
    srv,        \* the observations the FHIR server holds, in its -date order
    net,        \* the bag of requests in flight, each with its answer
    served,     \* how the last call of getVitals was served
    card,       \* a card of the template: its observation, the value it shows
    timers      \* the pending setTimeout callbacks of createTemperatureObservation

launchVars ==
    <<ls, pc, url, token, baseUrl, ran, takeover, err, reqs, nav, before>>

feedVars ==
    <<vitalObservations, loading, error, showCreateForm, creating, createError,
      currentPage, displayedObservations, allObservations, isLoadingMore,
      hasMoreOnServer, nextUrl, lastFetchTime>>

envVars == <<mounted, engine, now, srv, net, served, card, timers>>

vars == <<launchVars, feedVars, envVars>>

(***************************************************************************)
(* JavaScript values                                                       *)
(***************************************************************************)
\* null / undefined of a string-valued slot (getItem, searchParams.get)
NULL == "<null>"

\* `if (x)` on a string-or-null value
Truthy(s) == s /= NULL /\ s /= ""

\* `token` before any assignment
Undefined == [type |-> "undefined"]

\* `if (token)` / `{#if !token}` on undefined-or-object
TruthyObj(o) == o.type = "object"

(***************************************************************************)
(* The environment: launches, codes and what the servers answer            *)
(***************************************************************************)
Tabs == {"tab1", "tab2"}

IssValues == {"https://ehr", "https://ehr:8443"}
LaunchValues == {"x", "8443:x"}
CodeValues == {"c1", "c2"}

IssParams == {NULL, ""} \cup IssValues
LaunchParams == {NULL, ""} \cup LaunchValues
CodeParams == {NULL} \cup CodeValues

\* the discovery document of an issuer
AuthorizationEndpointOf(iss) == iss \o "/authorize"
TokenEndpointOf(iss) == iss \o "/token"

\* the payloads a token endpoint may answer a code with: any of the two
\* fields may be missing
TokenPayloads(code) ==
    { [type |-> "object", access_token |-> a, patient |-> p] :
        a \in {NULL, "at-" \o code}, p \in {NULL, "pat-" \o code} }

AllTokenPayloads == UNION { TokenPayloads(c) : c \in CodeValues }

(***************************************************************************)
(* JSON.stringify / JSON.parse of a token payload                          *)
(***************************************************************************)
JSONmember(name, value) ==
    IF value = NULL THEN "" ELSE "\"" \o name \o "\":\"" \o value \o "\""

JSONstringify(o) ==
    LET a == JSONmember("access_token", o.access_token)
        p == JSONmember("patient", o.patient)
    IN  "{" \o a \o (IF a /= "" /\ p /= "" THEN "," ELSE "") \o p \o "}"

JSONparse(text) ==
    CHOOSE o \in AllTokenPayloads : JSONstringify(o) = text

(***************************************************************************)
(* LaunchController                                                        *)
(***************************************************************************)
client_id == "b8ee6437-99b8-471b-8b98-c89ca1451150"
redirectUrl == "http://localhost:5173"
scope == "openid fhirUser launch user/Observation.read user/Observation.write user/Patient.read"

EmptyStore ==
    [token |-> NULL, iss |-> NULL, tokenEndpoint |-> NULL, currentLaunch |-> NULL]

NoNav == [type |-> "none"]
NoReqs ==
    [discovery |-> 0, token |-> 0, tokenEndpoint |-> NULL, code |-> NULL,
     body |-> Undefined]

\* constructAuthUrl sending the user back to the page it was called on
constructAuthUrl_returnToPage(authorizationEndpoint, launch, iss) ==
    [type |-> "url",
     endpoint |-> authorizationEndpoint,
     client_id |-> client_id,
     redirect_uri |-> redirectUrl \o "/?iss=" \o iss,
     scope |-> scope,
     response_type |-> "code",
     aud |-> iss,
     launch |-> launch]

constructAuthUrl(authorizationEndpoint, launch, iss) ==
    [type |-> "url",
     endpoint |-> authorizationEndpoint,
     client_id |-> client_id,
     redirect_uri |-> redirectUrl,
     scope |-> scope,
     response_type |-> "code",
     aud |-> iss,
     launch |-> launch]

\* clearAuthData forgetting removeItem("token")
clearAuthData_keepsToken(store) ==
    [store EXCEPT !.iss = NULL, !.tokenEndpoint = NULL, !.currentLaunch = NULL]

\* clearAuthData: the four removeItem calls (token = undefined is the
\* component's own variable, which a fresh page holds undefined anyway)
clearAuthData(store) ==
    [store EXCEPT !.token = NULL, !.iss = NULL,
                  !.tokenEndpoint = NULL, !.currentLaunch = NULL]

currentLaunchKey(issParam, launchParam) == issParam \o ":" \o launchParam

\* new-launch detection without the comparison: `if (storedLaunch)`
isNewLaunch_anyStored(storedLaunch, key) == Truthy(storedLaunch)

\* `if (storedLaunch && storedLaunch !== currentLaunchKey)`
isNewLaunch(storedLaunch, key) == Truthy(storedLaunch) /\ storedLaunch /= key

\* `if (issParam && launchParam)`
hasLaunchParams(issParam, launchParam) == Truthy(issParam) /\ Truthy(launchParam)

\* new-launch detection with the setItem("currentLaunch") inside the
\* takeover branch
detectNewLaunch_keyOnTakeover(store, issParam, launchParam) ==
    LET key == currentLaunchKey(issParam, launchParam)
    IN  IF /\ hasLaunchParams(issParam, launchParam)
           /\ isNewLaunch(store.currentLaunch, key)
        THEN [clearAuthData(store) EXCEPT !.currentLaunch = key]
        ELSE store

\* onMount, new-launch detection: the store after it
detectNewLaunch(store, issParam, launchParam) ==
    IF hasLaunchParams(issParam, launchParam)
    THEN LET key == currentLaunchKey(issParam, launchParam)
             cleared == IF isNewLaunch(store.currentLaunch, key)
                        THEN clearAuthData(store) ELSE store
         IN  [cleared EXCEPT !.currentLaunch = key]
    ELSE store

\* whether new-launch detection called clearAuthData
detectsTakeover(store, issParam, launchParam) ==
    /\ hasLaunchParams(issParam, launchParam)
    /\ isNewLaunch(store.currentLaunch, currentLaunchKey(issParam, launchParam))

\* restoration that never reads the stored token
restoredToken_never(store) == Undefined

\* `if (tokenJSON) token = JSON.parse(tokenJSON)`
restoredToken(store) ==
    IF Truthy(store.token) THEN JSONparse(store.token) ELSE Undefined

\* `if (issLocalStorage) baseUrl = issLocalStorage`
restoredBaseUrl(store) ==
    IF Truthy(store.iss) THEN store.iss ELSE NULL

\* the form the token POST sends: new URLSearchParams({...})
tokenRequestBody(code) ==
    [grant_type |-> "authorization_code",
     code |-> code,
     redirect_uri |-> redirectUrl,
     client_id |-> client_id]

\* makeTokenRequest without the `if (!tokenEndpoint) throw`
makeTokenRequest_noGuard(load, code) ==
    [load EXCEPT !.pc = "awaitToken",
                 !.reqs = [NoReqs EXCEPT !.token = 1,
                              !.tokenEndpoint = load.ls.tokenEndpoint,
                              !.code = code,
                              !.body = tokenRequestBody(code)]]

\* makeTokenRequest up to its await: the endpoint lookup, the throw, the POST
makeTokenRequest(load, code) ==
    LET tokenEndpoint == load.ls.tokenEndpoint
    IN  IF ~Truthy(tokenEndpoint)
        THEN [load EXCEPT !.pc = "failed",
                          !.err = "Token endpoint is not in local storage."]
        ELSE [load EXCEPT !.pc = "awaitToken",
                          !.reqs = [NoReqs EXCEPT !.token = 1,
                                       !.tokenEndpoint = tokenEndpoint,
                                       !.code = code,
                                       !.body = tokenRequestBody(code)]]

\* onMount with `if (code)` tested before `if (token)`
mountOutcome_codeFirst(store, issParam, launchParam, code) ==
    LET s1 == detectNewLaunch(store, issParam, launchParam)
        tok == restoredToken(s1)
        base == [ls |-> s1, token |-> tok, baseUrl |-> restoredBaseUrl(s1),
                 ran |-> {}, err |-> NULL, reqs |-> NoReqs, pc |-> "done"]
    IN  IF Truthy(code)
        THEN makeTokenRequest([base EXCEPT !.ran = {"exchange"}], code)
        ELSE IF TruthyObj(tok)
        THEN [base EXCEPT !.ran = {"restore"}]
        ELSE IF ~Truthy(issParam) \/ ~Truthy(launchParam)
        THEN [base EXCEPT !.ran = {"fresh"}, !.pc = "failed",
                          !.err = "ISS or Launch parameter is missing."]
        ELSE [base EXCEPT !.ran = {"fresh"}, !.pc = "awaitDiscovery",
                          !.ls = [s1 EXCEPT !.iss = issParam],
                          !.reqs = [NoReqs EXCEPT !.discovery = 1]]

\* onMount from its start to its first await, its return or its throw
mountOutcome(store, issParam, launchParam, code) ==
    LET s1 == detectNewLaunch(store, issParam, launchParam)
        tok == restoredToken(s1)
        base == [ls |-> s1, token |-> tok, baseUrl |-> restoredBaseUrl(s1),
                 ran |-> {}, err |-> NULL, reqs |-> NoReqs, pc |-> "done"]
    IN  IF TruthyObj(tok)
        THEN [base EXCEPT !.ran = {"restore"}]
        ELSE IF Truthy(code)
        THEN makeTokenRequest([base EXCEPT !.ran = {"exchange"}], code)
        ELSE IF ~Truthy(issParam) \/ ~Truthy(launchParam)
        THEN [base EXCEPT !.ran = {"fresh"}, !.pc = "failed",
                          !.err = "ISS or Launch parameter is missing."]
        ELSE [base EXCEPT !.ran = {"fresh"}, !.pc = "awaitDiscovery",
                          !.ls = [s1 EXCEPT !.iss = issParam],
                          !.reqs = [NoReqs EXCEPT !.discovery = 1]]

\* a page load of tab t with the given query parameters
OnMount(t, issParam, launchParam, code) ==
    LET out == mountOutcome(ls, issParam, launchParam, code)
    IN  /\ ls' = out.ls
        /\ pc' = [pc EXCEPT ![t] = out.pc]
        /\ url' = [url EXCEPT ![t] = [iss |-> issParam, launch |-> launchParam,
                                      code |-> code]]
        /\ token' = [token EXCEPT ![t] = out.token]
        /\ baseUrl' = [baseUrl EXCEPT ![t] = out.baseUrl]
        /\ ran' = [ran EXCEPT ![t] = out.ran]
        /\ takeover' = [takeover EXCEPT ![t] =
                            detectsTakeover(ls, issParam, launchParam)]
        /\ err' = [err EXCEPT ![t] = out.err]
        /\ reqs' = [reqs EXCEPT ![t] = out.reqs]
        /\ nav' = [nav EXCEPT ![t] = NoNav]
        /\ before' = [before EXCEPT ![t] = ls]
        /\ UNCHANGED <<feedVars, envVars>>

\* a code exchange that keeps the payload in memory only
persistToken_skipped(store, payload) == store

\* the token POST answered 2xx: token = tokenFromCerner; setItem("token", ...)
persistToken(store, payload) == [store EXCEPT !.token = JSONstringify(payload)]

TokenResponse(t) ==
    /\ pc[t] = "awaitToken"
    /\ \E payload \in TokenPayloads(reqs[t].code) :
          /\ token' = [token EXCEPT ![t] = payload]
          /\ ls' = persistToken(ls, payload)
    /\ pc' = [pc EXCEPT ![t] = "done"]
    /\ UNCHANGED <<url, baseUrl, ran, takeover, err, reqs, nav, before, feedVars, envVars>>

\* the token POST failed and is sent again
TokenFailure_retried(t) ==
    /\ pc[t] = "awaitToken"
    /\ reqs' = [reqs EXCEPT ![t].token = @ + 1]
    /\ UNCHANGED <<ls, pc, url, token, baseUrl, ran, takeover, err, nav, before,
                   feedVars, envVars>>

\* the token POST failed: axios.post rejects, onMount rejects
TokenFailure(t) ==
    /\ pc[t] = "awaitToken"
    /\ pc' = [pc EXCEPT ![t] = "failed"]
    /\ err' = [err EXCEPT ![t] = "token request failed"]
    /\ UNCHANGED <<ls, url, token, baseUrl, ran, takeover, reqs, nav, before, feedVars, envVars>>

\* the discovery GET answered, without setItem("tokenEndpoint")
DiscoveryResponse_redirectOnly(t) ==
    /\ pc[t] = "awaitDiscovery"
    /\ nav' = [nav EXCEPT ![t] =
                 constructAuthUrl(AuthorizationEndpointOf(url[t].iss),
                                  url[t].launch, url[t].iss)]
    /\ pc' = [pc EXCEPT ![t] = "navigated"]
    /\ UNCHANGED <<ls, url, token, baseUrl, ran, takeover, err, reqs, before,
                   feedVars, envVars>>

\* the discovery GET answered: setItem("tokenEndpoint"), window.location.href
DiscoveryResponse(t) ==
    /\ pc[t] = "awaitDiscovery"
    /\ LET iss == url[t].iss
           launch == url[t].launch
       IN  /\ ls' = [ls EXCEPT !.tokenEndpoint = TokenEndpointOf(iss)]
           /\ nav' = [nav EXCEPT ![t] =
                        constructAuthUrl(AuthorizationEndpointOf(iss), launch, iss)]
    /\ pc' = [pc EXCEPT ![t] = "navigated"]
    /\ UNCHANGED <<url, token, baseUrl, ran, takeover, err, reqs, before, feedVars, envVars>>

\* the discovery GET failed: axios.get rejects, onMount rejects
DiscoveryFailure(t) ==
    /\ pc[t] = "awaitDiscovery"
    /\ pc' = [pc EXCEPT ![t] = "failed"]
    /\ err' = [err EXCEPT ![t] = "discovery request failed"]
    /\ UNCHANGED <<ls, url, token, baseUrl, ran, takeover, reqs, nav, before, feedVars, envVars>>

\* the template of the launch component: {#if !token} loading {:else} content
Screen(t) == IF ~TruthyObj(token[t]) THEN "loading" ELSE "content"

InitLaunch ==
    /\ ls = EmptyStore
    /\ pc = [t \in Tabs |-> "unloaded"]
    /\ url = [t \in Tabs |-> [iss |-> NULL, launch |-> NULL, code |-> NULL]]
    /\ token = [t \in Tabs |-> Undefined]
    /\ baseUrl = [t \in Tabs |-> NULL]
    /\ ran = [t \in Tabs |-> {}]
    /\ takeover = [t \in Tabs |-> FALSE]
    /\ err = [t \in Tabs |-> NULL]
    /\ reqs = [t \in Tabs |-> NoReqs]
    /\ nav = [t \in Tabs |-> NoNav]
    /\ before = [t \in Tabs |-> EmptyStore]

PageLoad(t) ==
    \E i \in IssParams, l \in LaunchParams, c \in CodeParams : OnMount(t, i, l, c)

\* one browser tab: every page load runs to its end before the next starts
OneTab == "tab1"

NextLaunch ==
    \/ PageLoad(OneTab)
    \/ TokenResponse(OneTab)
    \/ TokenFailure(OneTab)
    \/ DiscoveryResponse(OneTab)
    \/ DiscoveryFailure(OneTab)

(***************************************************************************)
(* ObservationFeed: bounds and constants                                   *)
(***************************************************************************)
\* `let itemsPerPage = 20`, scaled down; `_count=30` is half as much again
itemsPerPage == 1
ServerCount == itemsPerPage + (itemsPerPage + 1) \div 2

MaxServerObs == 4   \* observations the server holds at most

\* temperatures created in one session, at most
MaxCreates == 2

\* currentPage is not driven beyond the page that shows all of them
MaxPage == MaxServerObs \div itemsPerPage

CACHE_DURATION == 30000

\* calls of getVitals awaiting their answer at once, at most
MaxCalls == 2

\* the clock readings: two instants one cache duration apart
TickMs == CACHE_DURATION

\* new Date(effectiveDateTime || "").getTime() of a missing or unparseable
\* date: NaN
NoDate == -1

Instants == {TickMs, 2 * TickMs}
Dates == Instants \cup {NoDate}

\* what the form may hold at submit: nothing, no number, a number with a tail
TemperatureInputs == {"", "abc", "37.5C"}

(***************************************************************************)
(* Array.prototype.sort with the comparator (a, b) => dateB - dateA        *)
(***************************************************************************)
\* the comparator's result is negative: a sorts strictly before b. A NaN
\* result (either date missing) is read as +0.
comesBefore(a, b) ==
    /\ a.effectiveDateTime /= NoDate
    /\ b.effectiveDateTime /= NoDate
    /\ b.effectiveDateTime - a.effectiveDateTime < 0

InsertAt(s, k, x) == SubSeq(s, 1, k - 1) \o <<x>> \o SubSeq(s, k, Len(s))

Reverse(s) == [i \in 1..Len(s) |-> s[Len(s) + 1 - i]]

\* insertion sort: each element moves left past the elements it sorts before
RECURSIVE linearPosition(_, _, _)
linearPosition(s, j, x) ==
    IF j >= 1 /\ comesBefore(x, s[j]) THEN linearPosition(s, j - 1, x) ELSE j + 1

RECURSIVE insertionSortFrom(_, _)
insertionSortFrom(s, i) ==
    IF i > Len(s) THEN s
    ELSE LET sorted == SubSeq(s, 1, i - 1)
             k == linearPosition(sorted, i - 1, s[i])
         IN  insertionSortFrom(
                 InsertAt(sorted, k, s[i]) \o SubSeq(s, i + 1, Len(s)), i + 1)

insertionSort(s) == insertionSortFrom(s, 2)

\* TimSort on a short array: the leading run, then binary insertion
RECURSIVE binaryPosition(_, _, _, _)
binaryPosition(s, left, right, pivot) ==
    IF left < right
    THEN LET mid == left + ((right - left) \div 2)
         IN  IF comesBefore(pivot, s[mid])
             THEN binaryPosition(s, left, mid, pivot)
             ELSE binaryPosition(s, mid + 1, right, pivot)
    ELSE left

RECURSIVE binaryInsertionSort(_, _)
binaryInsertionSort(s, start) ==
    IF start > Len(s) THEN s
    ELSE LET sorted == SubSeq(s, 1, start - 1)
             k == binaryPosition(sorted, 1, start, s[start])
         IN  binaryInsertionSort(
                 InsertAt(sorted, k, s[start]) \o SubSeq(s, start + 1, Len(s)),
                 start + 1)

RECURSIVE runEnd(_, _, _)
runEnd(s, i, descending) ==
    IF i > Len(s) THEN i - 1
    ELSE IF descending = comesBefore(s[i], s[i - 1])
         THEN runEnd(s, i + 1, descending)
         ELSE i - 1

timSort(s) ==
    IF Len(s) < 2 THEN s
    ELSE LET descending == comesBefore(s[2], s[1])
             n == runEnd(s, 3, descending)
             run == IF descending THEN Reverse(SubSeq(s, 1, n))
                                  ELSE SubSeq(s, 1, n)
         IN  binaryInsertionSort(run \o SubSeq(s, n + 1, Len(s)), n + 1)

\* entries.sort((a, b) => dateB - dateA)
sortByDate(s) == IF engine = "timsort" THEN timSort(s) ELSE insertionSort(s)

(***************************************************************************)
(* The FHIR server                                                         *)
(***************************************************************************)
Min(a, b) == IF a <= b THEN a ELSE b

\* the continuation link of the page that ends at entry `offset`
NextLink(offset) == "next-" \o ToString(offset)
OffsetOf(link) == CHOOSE k \in 0..(MaxServerObs + 1) : NextLink(k) = link

\* GET Observation?...&_sort=-date&_count=N, and GET of a continuation link
ServerPage(offset) ==
    [type |-> "bundle",
     entry |-> SubSeq(srv, offset + 1, Min(offset + ServerCount, Len(srv))),
     next |-> IF Len(srv) > offset + ServerCount
              THEN NextLink(offset + ServerCount) ELSE NULL]

\* the server's -date order: dated entries newest first, undated ones last
RECURSIVE ServerPosition(_, _, _)
ServerPosition(list, k, date) ==
    IF k <= Len(list) /\ date /= NoDate /\ list[k].effectiveDateTime > date
    THEN ServerPosition(list, k + 1, date)
    ELSE k

ServerOrdered(list) ==
    \A i \in 1..(Len(list) - 1) :
        \/ list[i + 1].effectiveDateTime = NoDate
        \/ /\ list[i].effectiveDateTime /= NoDate
           /\ list[i].effectiveDateTime >= list[i + 1].effectiveDateTime

ServerId(n) == "obs-" \o ToString(n)

\* the entry of a searchset bundle: the server gives it a fullUrl, which an
\* entry synthesized by the component has not
ServerEntry(id, obs) ==
    [id |-> id, effectiveDateTime |-> obs.effectiveDateTime,
     text |-> obs.text, value |-> obs.value, unit |-> obs.unit,
     fullUrl |-> "Observation/" \o id]

\* a vital sign some other system recorded at `date`
OtherVital(date) ==
    [effectiveDateTime |-> date, text |-> "Heart rate", value |-> "72",
     unit |-> "/min"]

\* what the server may hold when the viewer mounts
InitialServerLists ==
    { [i \in 1..Len(d) |-> ServerEntry(ServerId(i), OtherVital(d[i]))] :
        d \in UNION { [1..m -> Dates] : m \in 0..MaxServerObs } }

(***************************************************************************)
(* The value shown on a card: bpDisplay                                    *)
(***************************************************************************)
\* components per observation, at most
MaxComponents == 3

SystolicCode == "8480-6"
DiastolicCode == "8462-4"
HeartRateCode == "8867-4"

\* a Quantity: its value and its unit (NULL: no unit); Undefined: no Quantity
Quantities(values) ==
    { [value |-> v, unit |-> u] : v \in values, u \in {NULL, "mm[Hg]"} }

\* a component: the code of its coding and its valueQuantity
Components ==
    { [code |-> c, valueQuantity |-> q] :
        c \in {SystolicCode, DiastolicCode, HeartRateCode},
        q \in {Undefined} \cup Quantities({120, 80}) }

\* the Observation resources a card may be given: components, valueQuantity
\* and valueString each present or not (FHIR has no empty string)
Observations ==
    { [component |-> c, valueQuantity |-> q, valueString |-> t] :
        c \in UNION { [1..m -> Components] : m \in 0..MaxComponents },
        q \in {Undefined} \cup Quantities({37}),
        t \in {NULL, "positive"} }

\* observation.component.find(c => c.code?.coding?.some(coding =>
\* coding.code === code)): the first component of that code, if any
find(component, code) ==
    LET matches == { i \in 1..Len(component) : component[i].code = code }
    IN  IF matches = {} THEN Undefined
        ELSE component[CHOOSE i \in matches : \A j \in matches : i <= j]

\* x?.valueQuantity
valueQuantityOf(x) == IF x = Undefined THEN Undefined ELSE x.valueQuantity

\* `${systolic.value}/${diastolic.value} ${unit || "mmHg"}`
bloodPressureText(systolic, diastolic) ==
    ToString(systolic.value) \o "/" \o ToString(diastolic.value) \o " " \o
        (IF Truthy(systolic.unit) THEN systolic.unit ELSE "mmHg")

\* `${value} ${unit || ""}`
quantityText(q) ==
    ToString(q.value) \o " " \o (IF Truthy(q.unit) THEN q.unit ELSE "")

\* bpDisplay testing the single quantity before the components
bpDisplay_quantityFirst(observation) ==
    LET systolic == valueQuantityOf(find(observation.component, SystolicCode))
        diastolic == valueQuantityOf(find(observation.component, DiastolicCode))
    IN  IF observation.valueQuantity /= Undefined
        THEN quantityText(observation.valueQuantity)
        ELSE IF /\ Len(observation.component) > 0
                /\ systolic /= Undefined /\ diastolic /= Undefined
        THEN bloodPressureText(systolic, diastolic)
        ELSE IF Truthy(observation.valueString)
        THEN observation.valueString
        ELSE "Not available"

bpDisplay(observation) ==
    LET systolic == valueQuantityOf(find(observation.component, SystolicCode))
        diastolic == valueQuantityOf(find(observation.component, DiastolicCode))
    IN  IF /\ Len(observation.component) > 0
           /\ systolic /= Undefined /\ diastolic /= Undefined
        THEN bloodPressureText(systolic, diastolic)
        ELSE IF observation.valueQuantity /= Undefined
        THEN quantityText(observation.valueQuantity)
        ELSE IF Truthy(observation.valueString)
        THEN observation.valueString
        ELSE "Not available"

\* no card is being rendered
NoCard == [observation |-> Undefined, value |-> NULL]

\* the template: <p class="vital-value">{bpDisplay(observation.resource)}</p>
RenderValue ==
    /\ card.observation /= Undefined /\ card.value = NULL
    /\ card' = [card EXCEPT !.value = bpDisplay(card.observation)]
    /\ UNCHANGED <<launchVars, feedVars, mounted, engine, now, srv, net,
                   served, timers>>

(***************************************************************************)
(* ObservationFeed                                                         *)
(***************************************************************************)
\* a request in flight. The server answers from what it holds when the
\* request is sent; the answer (or, instead of it, a failure) reaches the
\* component at any later moment, in any order.
Sent(kind, at, obs, resp) == [kind |-> kind, at |-> at, obs |-> obs, resp |-> resp]

NoObs == [effectiveDateTime |-> NoDate, text |-> "", value |-> "", unit |-> ""]

Send(r) == net' = net (+) SetToBag({r})
Receive(r) == net' = net (-) SetToBag({r})
InFlight(kind) == { r \in BagToSet(net) : r.kind = kind }

\* the requests of the kind in flight, counted with their multiplicity
NumInFlight(kind) ==
    LET count[S \in SUBSET InFlight(kind)] ==
            IF S = {} THEN 0
            ELSE LET r == CHOOSE x \in S : TRUE
                 IN  CopiesIn(r, net) + count[S \ {r}]
    IN  count[InFlight(kind)]

\* getVitalsEntries: bundle.entry || []
getVitalsEntries(bundle) == bundle.entry

\* bundle.link?.find(link => link.relation === 'next')?.url || null
nextLinkOf(bundle) == bundle.next

\* getVitals: the cache test with the age compared the wrong way round
cacheIsFresh_inverted(forceRefresh, bundle, time, last) ==
    /\ ~forceRefresh
    /\ bundle /= Undefined
    /\ time - last > CACHE_DURATION

\* getVitals: the cache test without `!forceRefresh`
cacheIsFresh_ignoresForce(forceRefresh, bundle, time, last) ==
    /\ bundle /= Undefined
    /\ time - last < CACHE_DURATION

\* getVitals: the cache is used
cacheIsFresh(forceRefresh, bundle, time, last) ==
    /\ ~forceRefresh
    /\ bundle /= Undefined
    /\ time - last < CACHE_DURATION

\* updateDisplayedObservations: the window up to the wrong index
updateDisplayedObservations_offByOne(all, bundle, page) ==
    LET init == Len(all) = 0 /\ bundle /= Undefined
        entries == IF init THEN sortByDate(getVitalsEntries(bundle)) ELSE all
    IN  [all |-> entries,
         bundle |-> IF init THEN [bundle EXCEPT !.entry = entries] ELSE bundle,
         displayed |-> SubSeq(entries, 1, Min(page * itemsPerPage, Len(entries)))]

\* updateDisplayedObservations: allObservations is initialised from the
\* bundle (sorted in place) when it is empty; displayed is its first
\* (currentPage + 1) * itemsPerPage entries
updateDisplayedObservations(all, bundle, page) ==
    LET init == Len(all) = 0 /\ bundle /= Undefined
        entries == IF init THEN sortByDate(getVitalsEntries(bundle)) ELSE all
        endIndex == (page + 1) * itemsPerPage
    IN  [all |-> entries,
         bundle |-> IF init THEN [bundle EXCEPT !.entry = entries] ELSE bundle,
         displayed |-> SubSeq(entries, 1, Min(endIndex, Len(entries)))]

\* the assignments every caller of updateDisplayedObservations ends with
Refresh(all, bundle, page) ==
    LET u == updateDisplayedObservations(all, bundle, page)
    IN  /\ allObservations' = u.all
        /\ vitalObservations' = u.bundle
        /\ displayedObservations' = u.displayed
        /\ currentPage' = page

\* hasMore() comparing with >=
hasMore_inclusive ==
    LET currentlyDisplayed == (currentPage + 1) * itemsPerPage
    IN  Len(allObservations) >= currentlyDisplayed \/ hasMoreOnServer

\* hasMore()
hasMore ==
    LET currentlyDisplayed == (currentPage + 1) * itemsPerPage
    IN  Len(allObservations) > currentlyDisplayed \/ hasMoreOnServer

\* the template: {#if loading} .. {:else if error} .. {:else if vitalObservations}
ContentShown == ~loading /\ error = NULL /\ vitalObservations /= Undefined

\* parseFloat of the form input: the number the text starts with, "NaN"
\* when it starts with none
parseFloat(text) ==
    CASE text = "37.5C" -> "37.5"
      [] text = "37" -> "37"
      [] OTHER -> "NaN"

\* the validation without the isNaN test
invalidTemperature_emptyOnly(text) == text = ""

\* `!temperatureValue || isNaN(parseFloat(temperatureValue))`
invalidTemperature(text) == text = "" \/ parseFloat(text) = "NaN"

\* Date.now() / new Date(): the clock has not gone backwards since it was
\* last read
ReadClock == now' \in { t \in Instants : t >= now }

\* ---- onMount: vitalObservations = await getVitals() ----
Mount ==
    /\ ~mounted
    /\ mounted' = TRUE
    /\ ReadClock
    /\ IF cacheIsFresh(FALSE, vitalObservations, now', lastFetchTime)
       THEN /\ served' = "cache"
            /\ loading' = FALSE
            /\ UNCHANGED net
       ELSE /\ served' = "network"
            /\ Send(Sent("vitals", now', NoObs, ServerPage(0)))
            /\ UNCHANGED loading
    /\ UNCHANGED <<launchVars, card, vitalObservations, error, showCreateForm,
                   creating, createError, currentPage, displayedObservations,
                   allObservations, isLoadingMore, hasMoreOnServer, nextUrl,
                   lastFetchTime, engine, srv, timers>>

\* the first GET answered 2xx: getVitals stores the cursor, onMount the bundle,
\* and the reactive statement calls updateDisplayedObservations
InitialResponse(r) ==
    /\ r \in InFlight("vitals")
    /\ Receive(r)
    /\ lastFetchTime' = r.at
    /\ nextUrl' = nextLinkOf(r.resp)
    /\ hasMoreOnServer' = (nextLinkOf(r.resp) /= NULL)
    /\ loading' = FALSE
    /\ Refresh(allObservations, [type |-> "bundle", entry |-> r.resp.entry],
               currentPage)
    /\ UNCHANGED <<launchVars, served, card, error, showCreateForm, creating, createError,
                   isLoadingMore, mounted, engine, now, srv, timers>>

\* the first GET failed, and the handler drops the session it takes for
\* expired
InitialFailure_clearsSession(r) ==
    /\ r \in InFlight("vitals")
    /\ Receive(r)
    /\ error' = "Failed to fetch vital signs"
    /\ loading' = FALSE
    /\ ls' = clearAuthData(ls)
    /\ UNCHANGED <<pc, url, token, baseUrl, ran, takeover, err, reqs, nav,
                   before, served, card, vitalObservations, showCreateForm,
                   creating, createError, currentPage, displayedObservations,
                   allObservations, isLoadingMore, hasMoreOnServer, nextUrl,
                   lastFetchTime, mounted, engine, now, srv, timers>>

\* the first GET failed (no answer, or an error status): getVitals throws
InitialFailure(r) ==
    /\ r \in InFlight("vitals")
    /\ Receive(r)
    /\ error' = "Failed to fetch vital signs"
    /\ loading' = FALSE
    /\ UNCHANGED <<launchVars, served, card, vitalObservations, showCreateForm, creating,
                   createError, currentPage, displayedObservations,
                   allObservations, isLoadingMore, hasMoreOnServer, nextUrl,
                   lastFetchTime, mounted, engine, now, srv, timers>>

\* ---- loadMore ----
\* loadMore advancing by the `+ 2` of currentlyNeeded
incrementPage_byTwo(page) == page + 2

\* `currentPage++`
incrementPage(page) == page + 1

\* fetchMoreFromServer without `isLoadingMore = true`
markLoadingMore_omitted(flag) == flag

\* fetchMoreFromServer: `isLoadingMore = true`
markLoadingMore(flag) == TRUE

\* the click on "Load More Vitals", up to the await of fetchMoreFromServer
LoadMore ==
    /\ ContentShown /\ Len(allObservations) > 0 /\ ~isLoadingMore
    /\ currentPage < MaxPage
    /\ LET currentlyNeeded == (currentPage + 2) * itemsPerPage
       IN  IF /\ Len(allObservations) < currentlyNeeded
              /\ hasMoreOnServer /\ ~isLoadingMore
              /\ nextUrl /= NULL
           THEN /\ isLoadingMore' = markLoadingMore(isLoadingMore)
                /\ Send(Sent("more", 0, NoObs, ServerPage(OffsetOf(nextUrl))))
                /\ UNCHANGED <<currentPage, displayedObservations,
                               allObservations, vitalObservations>>
           ELSE /\ Refresh(allObservations, vitalObservations,
                           incrementPage(currentPage))
                /\ UNCHANGED <<isLoadingMore, net>>
    /\ UNCHANGED <<launchVars, served, card, loading, error, showCreateForm, creating,
                   createError, hasMoreOnServer, nextUrl, lastFetchTime,
                   mounted, engine, now, srv, timers>>

\* loadMore keeping the returned page alone
mergeEntries_replaces(all, newEntries) == sortByDate(newEntries)

\* loadMore's merge: [...allObservations, ...sortedNewEntries].sort(...)
mergeEntries(all, newEntries) == sortByDate(all \o sortByDate(newEntries))

\* the continuation GET answered: fetchMoreFromServer stores the cursor and
\* clears the flag, loadMore merges, advances the page and refreshes
MoreResponse(r) ==
    /\ r \in InFlight("more")
    /\ Receive(r)
    /\ nextUrl' = nextLinkOf(r.resp)
    /\ hasMoreOnServer' = (nextLinkOf(r.resp) /= NULL)
    /\ isLoadingMore' = FALSE
    /\ Refresh(mergeEntries(allObservations, getVitalsEntries(r.resp)),
               vitalObservations, incrementPage(currentPage))
    /\ UNCHANGED <<launchVars, served, card, loading, error, showCreateForm, creating,
                   createError, lastFetchTime, mounted, engine, now, srv,
                   timers>>

\* the continuation GET failed: fetchMoreFromServer returns null, loadMore
\* still advances the page and refreshes
MoreFailure(r) ==
    /\ r \in InFlight("more")
    /\ Receive(r)
    /\ isLoadingMore' = FALSE
    /\ Refresh(allObservations, vitalObservations, incrementPage(currentPage))
    /\ UNCHANGED <<launchVars, served, card, loading, error, showCreateForm, creating,
                   createError, hasMoreOnServer, nextUrl, lastFetchTime,
                   mounted, engine, now, srv, timers>>

\* ---- the creation form ----
toggleCreateForm ==
    /\ ContentShown
    /\ showCreateForm' = ~showCreateForm
    /\ createError' = NULL
    /\ UNCHANGED <<launchVars, vitalObservations, loading, error, creating,
                   currentPage, displayedObservations, allObservations,
                   isLoadingMore, hasMoreOnServer, nextUrl, lastFetchTime,
                   envVars>>

\* POST Observation: the server stores the observation at its place in the
\* -date order
ServerStores(obs) ==
    LET entry == ServerEntry(ServerId(Len(srv) + 1), obs)
    IN  InsertAt(srv, ServerPosition(srv, 1, entry.effectiveDateTime), entry)

\* the answers to a POST: 201 with the resource, 201 without a body, or an
\* error status
PostAnswers ==
    { [type |-> "created", id |-> ServerId(Len(srv) + 1)],
      [type |-> "created", id |-> NULL],
      [type |-> "rejected", id |-> NULL] }

\* the temperatures the server has stored for the form
Created ==
    Cardinality({ i \in 1..Len(srv) : srv[i].text = "Temperature Oral" })

\* the Observation resource the form posts
temperatureObservation(time, text) ==
    [effectiveDateTime |-> time, text |-> "Temperature Oral",
     value |-> parseFloat(text), unit |-> "degC"]

\* createTemperatureObservation up to its return or the await of the POST;
\* `text` is what bind:value has put into temperatureValue by then
createTemperatureObservation(text) ==
    /\ ContentShown /\ showCreateForm /\ ~creating
    /\ IF invalidTemperature(text)
       THEN /\ createError' = "Please enter a valid temperature value"
            /\ UNCHANGED <<creating, net, now, srv>>
       ELSE /\ ReadClock
            /\ creating' = TRUE
            /\ createError' = NULL
            /\ LET obs == temperatureObservation(now', text)
               IN  \E answer \in PostAnswers :
                      /\ Send(Sent("create", 0, obs, answer))
                      /\ IF answer.type = "created"
                         THEN /\ Len(srv) < MaxServerObs
                              /\ Created < MaxCreates
                              /\ srv' = ServerStores(obs)
                         ELSE UNCHANGED srv
    /\ UNCHANGED <<launchVars, served, card, vitalObservations, loading, error,
                   showCreateForm, currentPage, displayedObservations,
                   allObservations, isLoadingMore, hasMoreOnServer, nextUrl,
                   lastFetchTime, mounted, engine, timers>>

\* the optimistic entry that never takes the id of the answer
newEntry_tempIdOnly(obs, id, time) ==
    [id |-> "temp-" \o ToString(time),
     effectiveDateTime |-> obs.effectiveDateTime,
     text |-> obs.text, value |-> obs.value, unit |-> obs.unit,
     fullUrl |-> NULL]

\* the optimistic entry: the posted observation with the id of the answer,
\* or `temp-${Date.now()}`
newEntry(obs, id, time) ==
    [id |-> IF id /= NULL THEN id ELSE "temp-" \o ToString(time),
     effectiveDateTime |-> obs.effectiveDateTime,
     text |-> obs.text, value |-> obs.value, unit |-> obs.unit,
     fullUrl |-> NULL]

\* allObservations = [newEntry, ...allObservations]
prepend(entry, all) == <<entry>> \o all

\* the handler without its finally block
finallyCreating_omitted(flag) == flag

\* `finally { creating = false; }`
finallyCreating(flag) == FALSE

\* the POST answered 2xx: optimistic update, form reset, setTimeout
CreateResponse(r) ==
    /\ r \in InFlight("create") /\ r.resp.type = "created"
    /\ Receive(r)
    /\ ReadClock
    /\ LET entry == newEntry(r.obs, r.resp.id, now')
           bundle == IF vitalObservations /= Undefined
                     THEN [vitalObservations EXCEPT
                              !.entry = prepend(entry, vitalObservations.entry)]
                     ELSE vitalObservations
       IN  Refresh(prepend(entry, allObservations), bundle, currentPage)
    /\ showCreateForm' = FALSE
    /\ timers' = timers + 1
    /\ creating' = finallyCreating(creating)
    /\ UNCHANGED <<launchVars, served, card, loading, error, createError, isLoadingMore,
                   hasMoreOnServer, nextUrl, lastFetchTime, mounted, engine,
                   srv>>

\* the POST failed: the catch block and the finally block
CreateFailure(r) ==
    /\ r \in InFlight("create") /\ r.resp.type = "rejected"
    /\ Receive(r)
    /\ createError' = "Failed to create temperature observation"
    /\ creating' = finallyCreating(creating)
    /\ UNCHANGED <<launchVars, served, card, vitalObservations, loading, error,
                   showCreateForm, currentPage, displayedObservations,
                   allObservations, isLoadingMore, hasMoreOnServer, nextUrl,
                   lastFetchTime, mounted, engine, now, srv, timers>>

\* ---- the background refresh ----
\* the setTimeout callback: getVitals(true) up to its await
RefreshTimer ==
    /\ timers > 0
    /\ timers' = timers - 1
    /\ ReadClock
    /\ IF cacheIsFresh(TRUE, vitalObservations, now', lastFetchTime)
       THEN /\ served' = "cache"
            /\ UNCHANGED net
       ELSE /\ served' = "network"
            /\ Send(Sent("refresh", now', NoObs, ServerPage(0)))
    /\ UNCHANGED <<launchVars, feedVars, mounted, engine, srv, card>>

\* the then-callback without `allObservations = []`
resetForReinitialization_skipped(all) == all

\* `allObservations = []; // Reset to force re-initialization`
resetForReinitialization(all) == <<>>

\* the forced GET answered: getVitals stores the cursor, the then-callback
\* replaces the bundle, empties allObservations, resets the page, refreshes
RefreshResponse(r) ==
    /\ r \in InFlight("refresh")
    /\ Receive(r)
    /\ lastFetchTime' = r.at
    /\ nextUrl' = nextLinkOf(r.resp)
    /\ hasMoreOnServer' = (nextLinkOf(r.resp) /= NULL)
    /\ Refresh(resetForReinitialization(allObservations),
               [type |-> "bundle", entry |-> r.resp.entry], 0)
    /\ UNCHANGED <<launchVars, served, card, loading, error, showCreateForm, creating,
                   createError, isLoadingMore, mounted, engine, now, srv,
                   timers>>

\* getVitals with `lastFetchTime = now` ahead of its await
RefreshFailure_stampsTime(r) ==
    /\ r \in InFlight("refresh")
    /\ Receive(r)
    /\ lastFetchTime' = r.at
    /\ UNCHANGED <<launchVars, served, card, vitalObservations, loading, error,
                   showCreateForm, creating, createError, currentPage,
                   displayedObservations, allObservations, isLoadingMore,
                   hasMoreOnServer, nextUrl, mounted, engine, now, srv, timers>>

\* the forced GET failed: getVitals throws, nothing handles the rejection
RefreshFailure(r) ==
    /\ r \in InFlight("refresh")
    /\ Receive(r)
    /\ UNCHANGED <<launchVars, served, card, feedVars, mounted, engine, now, srv, timers>>

\* ---- getVitals called again ----
\* a call of getVitals by a caller that awaits it as onMount does, up to its
\* return (the held bundle) or its await (the GET)
getVitals(forceRefresh) ==
    /\ mounted
    /\ NumInFlight("vitals") < MaxCalls
    /\ ReadClock
    /\ IF cacheIsFresh(forceRefresh, vitalObservations, now', lastFetchTime)
       THEN /\ served' = "cache"
            /\ UNCHANGED net
       ELSE /\ served' = "network"
            /\ Send(Sent("vitals", now', NoObs, ServerPage(0)))
    /\ UNCHANGED <<launchVars, feedVars, mounted, engine, srv, timers, card>>

InitComponent ==
    /\ vitalObservations = Undefined
    /\ loading = TRUE
    /\ error = NULL
    /\ showCreateForm = FALSE
    /\ creating = FALSE
    /\ createError = NULL
    /\ currentPage = 0
    /\ displayedObservations = <<>>
    /\ allObservations = <<>>
    /\ isLoadingMore = FALSE
    /\ hasMoreOnServer = TRUE
    /\ nextUrl = NULL
    /\ lastFetchTime = 0

\* the sort engine is one of the two where their results can differ (an
\* undated observation exists), and the first where they cannot
Engines(list) ==
    IF \E i \in 1..Len(list) : list[i].effectiveDateTime = NoDate
    THEN {"timsort", "insertion"}
    ELSE {"timsort"}

InitFeed ==
    /\ InitComponent
    /\ mounted = FALSE
    /\ now = TickMs
    /\ srv \in { l \in InitialServerLists : ServerOrdered(l) }
    /\ engine \in Engines(srv)
    /\ net = EmptyBag
    /\ served = "none"
    /\ card = NoCard
    /\ timers = 0

\* the viewer is not mounted
InitFeedIdle ==
    /\ InitComponent
    /\ mounted = FALSE
    /\ engine = "timsort"
    /\ now = TickMs
    /\ srv = <<>>
    /\ net = EmptyBag
    /\ served = "none"
    /\ card = NoCard
    /\ timers = 0

NextFeed ==
    \/ Mount
    \/ \E r \in BagToSet(net) : InitialResponse(r)
    \/ \E r \in BagToSet(net) : InitialFailure(r)
    \/ LoadMore
    \/ \E r \in BagToSet(net) : MoreResponse(r)
    \/ \E r \in BagToSet(net) : MoreFailure(r)
    \/ toggleCreateForm
    \/ \E text \in TemperatureInputs : createTemperatureObservation(text)
    \/ \E r \in BagToSet(net) : CreateResponse(r)
    \/ \E r \in BagToSet(net) : CreateFailure(r)
    \/ RefreshTimer
    \/ \E r \in BagToSet(net) : RefreshResponse(r)
    \/ \E r \in BagToSet(net) : RefreshFailure(r)

\* the launch component of one tab, the viewer not rendered
InitLaunchOnly == InitLaunch /\ InitFeedIdle

SpecLaunch == InitLaunchOnly /\ [][NextLaunch]_vars

\* the launch state the viewer is rendered in ({:else} of {#if !token}): tab1
\* after a launch of (https://ehr, x) and the exchange of code c1
SessionHeld ==
    LET payload == [type |-> "object", access_token |-> "at-c1",
                    patient |-> "pat-c1"]
        found == [token |-> NULL, iss |-> "https://ehr",
                  tokenEndpoint |-> TokenEndpointOf("https://ehr"),
                  currentLaunch |-> currentLaunchKey("https://ehr", "x")]
    IN  /\ ls = persistToken(found, payload)
        /\ pc = [t \in Tabs |-> IF t = OneTab THEN "done" ELSE "unloaded"]
        /\ url = [t \in Tabs |->
                    [iss |-> NULL, launch |-> NULL,
                     code |-> IF t = OneTab THEN "c1" ELSE NULL]]
        /\ token = [t \in Tabs |-> IF t = OneTab THEN payload ELSE Undefined]
        /\ baseUrl = [t \in Tabs |-> IF t = OneTab THEN "https://ehr" ELSE NULL]
        /\ ran = [t \in Tabs |-> IF t = OneTab THEN {"exchange"} ELSE {}]
        /\ takeover = [t \in Tabs |-> FALSE]
        /\ err = [t \in Tabs |-> NULL]
        /\ reqs = [t \in Tabs |->
                     IF t = OneTab
                     THEN [NoReqs EXCEPT !.token = 1,
                              !.tokenEndpoint = TokenEndpointOf("https://ehr"),
                              !.code = "c1",
                              !.body = tokenRequestBody("c1")]
                     ELSE NoReqs]
        /\ nav = [t \in Tabs |-> NoNav]
        /\ before = [t \in Tabs |-> IF t = OneTab THEN found ELSE EmptyStore]

\* the viewer of one session, from its construction
InitViewer == SessionHeld /\ InitFeed

SpecFeed == InitViewer /\ [][NextFeed]_vars

\* the viewer over a server whose -date order puts the observations without
\* a date anywhere (FHIR leaves their place to the server)
InitAnyOrder ==
    /\ SessionHeld
    /\ InitComponent
    /\ mounted = FALSE
    /\ now = TickMs
    /\ srv \in InitialServerLists
    /\ engine \in Engines(srv)
    /\ net = EmptyBag
    /\ served = "none"
    /\ card = NoCard
    /\ timers = 0

\* reading the feed: the first fetch and loadMore
NextBrowse ==
    \/ Mount
    \/ \E r \in BagToSet(net) : InitialResponse(r)
    \/ \E r \in BagToSet(net) : InitialFailure(r)
    \/ LoadMore
    \/ \E r \in BagToSet(net) : MoreResponse(r)
    \/ \E r \in BagToSet(net) : MoreFailure(r)

SpecBrowse == InitAnyOrder /\ [][NextBrowse]_vars

\* paging through the feed: the button is clicked while it is shown, and
\* every request is answered 2xx
NextPaging ==
    \/ Mount
    \/ \E r \in BagToSet(net) : InitialResponse(r)
    \/ hasMore /\ LoadMore
    \/ \E r \in BagToSet(net) : MoreResponse(r)

\* the answers arrive, and the user goes on clicking
SpecPaging ==
    /\ InitViewer
    /\ [][NextPaging]_vars
    /\ WF_vars(Mount)
    /\ WF_vars(\E r \in BagToSet(net) : InitialResponse(r))
    /\ WF_vars(hasMore /\ LoadMore)
    /\ WF_vars(\E r \in BagToSet(net) : MoreResponse(r))

\* the feed, where no request stays pending for ever: a POST is answered or
\* fails, and a continuation request that is not answered fails in the end
\* (only one is in flight at a time, so this is the same as "is answered or
\* fails")
SpecFlags ==
    /\ InitViewer
    /\ [][NextFeed]_vars
    /\ WF_vars(\E r \in BagToSet(net) : MoreFailure(r))
    /\ WF_vars(\E r \in BagToSet(net) : CreateResponse(r) \/ CreateFailure(r))

\* getVitals as a function: called again and again, forced or not, whatever
\* the component holds
NextCache ==
    \/ Mount
    \/ \E r \in BagToSet(net) : InitialResponse(r)
    \/ \E r \in BagToSet(net) : InitialFailure(r)
    \/ \E forceRefresh \in BOOLEAN : getVitals(forceRefresh)

SpecCache == InitViewer /\ [][NextCache]_vars

\* one card of the template, given any observation
InitCard ==
    /\ SessionHeld
    /\ InitComponent
    /\ mounted = FALSE
    /\ now = TickMs
    /\ srv = <<>>
    /\ engine = "timsort"
    /\ net = EmptyBag
    /\ served = "none"
    /\ card \in { [observation |-> o, value |-> NULL] : o \in Observations }
    /\ timers = 0

SpecDisplay == InitCard /\ [][RenderValue]_vars

(***************************************************************************)
(* Two tabs over one localStorage                                          *)
(***************************************************************************)
\* the launches the EHR may start: two issuers, one launch context each
Launches ==
    { [iss |-> "https://ehr", launch |-> "x"],
      [iss |-> "https://ehr:8443", launch |-> "x"] }

\* the code the authorization server of the URL sends the browser back with
AuthorizationCode(authUrl) == IF authUrl.aud = "https://ehr" THEN "c1" ELSE "c2"

\* the EHR opens the app in tab t: ?iss=...&launch=...
EhrLaunch(t) == \E l \in Launches : OnMount(t, l.iss, l.launch, NULL)

\* the authorization server sends tab t back to redirect_uri: ?code=...
AuthorizationReturn(t) ==
    /\ pc[t] = "navigated"
    /\ OnMount(t, NULL, NULL, AuthorizationCode(nav[t]))

\* the tabs share localStorage; each runs its own onMount, and the steps of
\* the two interleave at their awaits
NextTabs ==
    \E t \in Tabs :
        \/ EhrLaunch(t)
        \/ AuthorizationReturn(t)
        \/ TokenResponse(t)
        \/ TokenFailure(t)
        \/ DiscoveryResponse(t)
        \/ DiscoveryFailure(t)

SpecTabs == InitLaunchOnly /\ [][NextTabs]_vars

(***************************************************************************)
(* The handshake of one launch, over whatever the store holds              *)
(***************************************************************************)
\* what localStorage may hold when the app is opened: each item absent or a
\* value the component writes, in any combination
StoreContents ==
    { [token |-> tk, iss |-> i, tokenEndpoint |-> e, currentLaunch |-> k] :
        tk \in {NULL} \cup { JSONstringify(p) : p \in AllTokenPayloads },
        i \in {NULL} \cup IssValues,
        e \in {NULL} \cup { TokenEndpointOf(x) : x \in IssValues },
        k \in {NULL} \cup { currentLaunchKey(l.iss, l.launch) : l \in Launches } }

InitAnyStore ==
    /\ ls \in StoreContents
    /\ pc = [t \in Tabs |-> "unloaded"]
    /\ url = [t \in Tabs |-> [iss |-> NULL, launch |-> NULL, code |-> NULL]]
    /\ token = [t \in Tabs |-> Undefined]
    /\ baseUrl = [t \in Tabs |-> NULL]
    /\ ran = [t \in Tabs |-> {}]
    /\ takeover = [t \in Tabs |-> FALSE]
    /\ err = [t \in Tabs |-> NULL]
    /\ reqs = [t \in Tabs |-> NoReqs]
    /\ nav = [t \in Tabs |-> NoNav]
    /\ before = [t \in Tabs |-> EmptyStore]
    /\ InitFeedIdle

\* one launch of the EHR in one tab, every request of which is answered 2xx
NextHandshake ==
    \/ pc[OneTab] = "unloaded" /\ EhrLaunch(OneTab)
    \/ DiscoveryResponse(OneTab)
    \/ AuthorizationReturn(OneTab)
    \/ TokenResponse(OneTab)

\* the discovery document and the token arrive, and the authorization server
\* sends the browser back
SpecHandshake ==
    /\ InitAnyStore
    /\ [][NextHandshake]_vars
    /\ WF_vars(DiscoveryResponse(OneTab))
    /\ WF_vars(AuthorizationReturn(OneTab))
    /\ WF_vars(TokenResponse(OneTab))

(***************************************************************************)
(* LaunchController: properties                                            *)
(***************************************************************************)
UrlHasLaunch(t) == hasLaunchParams(url[t].iss, url[t].launch)
UrlKey(t) == currentLaunchKey(url[t].iss, url[t].launch)

\* the load of tab t found a stored launch key that differs from its own
FoundOtherLaunch(t) ==
    /\ pc[t] /= "unloaded"
    /\ UrlHasLaunch(t)
    /\ Truthy(before[t].currentLaunch)
    /\ before[t].currentLaunch /= UrlKey(t)

\* the load of tab t found the launch key of its own URL stored
FoundSameLaunch(t) ==
    /\ pc[t] /= "unloaded"
    /\ UrlHasLaunch(t)
    /\ before[t].currentLaunch = UrlKey(t)

\* a session was persisted when the scenarios of the load were evaluated
SessionAtDecision(t) == Truthy(before[t].token) /\ ~FoundOtherLaunch(t)

\* C1: a load whose URL carries iss and launch and that finds a different
\* launch key stored discards the stored token, issuer, token endpoint and
\* launch key before any scenario is evaluated: the load never restores, the
\* component's token stays undefined, a code in the URL finds no token
\* endpoint, and what the store holds afterwards is of the new launch only.
C1_TakeoverClears ==
    \A t \in {OneTab} :
        FoundOtherLaunch(t) =>
            /\ takeover[t]
            /\ "restore" \notin ran[t]
            /\ token[t] = Undefined
            /\ ls.token = NULL
            /\ ls.currentLaunch = UrlKey(t)
            /\ ls.iss \in {NULL, url[t].iss}
            /\ ls.tokenEndpoint \in {NULL, TokenEndpointOf(url[t].iss)}
            /\ (pc[t] /= "navigated" => ls.tokenEndpoint = NULL)
            /\ (Truthy(url[t].code) =>
                    /\ err[t] = "Token endpoint is not in local storage."
                    /\ reqs[t].token = 0)

C1_Witness ==
    /\ FoundOtherLaunch(OneTab)
    /\ Truthy(before[OneTab].token)
    /\ Truthy(before[OneTab].tokenEndpoint)
    /\ Truthy(url[OneTab].code)

\* C2: a load with the (iss, launch) whose key is already stored, made while
\* a session is persisted, clears nothing: token, issuer and token endpoint
\* are as the load found them and the session is restored.
C2_TakeoverIdempotent ==
    \A t \in {OneTab} :
        (FoundSameLaunch(t) /\ Truthy(before[t].token)) =>
            /\ ~takeover[t]
            /\ ls.token = before[t].token
            /\ ls.iss = before[t].iss
            /\ ls.tokenEndpoint = before[t].tokenEndpoint
            /\ ls.currentLaunch = before[t].currentLaunch
            /\ ran[t] = {"restore"}
            /\ pc[t] = "done"
            /\ token[t] = JSONparse(before[t].token)

C2_Witness ==
    /\ FoundSameLaunch(OneTab)
    /\ Truthy(before[OneTab].token)
    /\ Truthy(before[OneTab].iss)

\* C3: every load goes into exactly one of restoration, code exchange and
\* fresh authorization, chosen in that order after the takeover check:
\* restoration iff a session is persisted, code exchange iff none is and the
\* URL has a code, fresh authorization iff neither; a token request is only
\* issued by a code exchange and a discovery request only by a fresh
\* authorization.
C3_OneScenario ==
    \A t \in {OneTab} :
        pc[t] /= "unloaded" =>
            /\ Cardinality(ran[t]) = 1
            /\ ("restore" \in ran[t] <=> SessionAtDecision(t))
            /\ ("exchange" \in ran[t] <=>
                    ~SessionAtDecision(t) /\ Truthy(url[t].code))
            /\ ("fresh" \in ran[t] <=>
                    ~SessionAtDecision(t) /\ ~Truthy(url[t].code))
            /\ (reqs[t].token > 0 => ran[t] = {"exchange"})
            /\ (reqs[t].discovery > 0 => ran[t] = {"fresh"})
            /\ (pc[t] = "navigated" => ran[t] = {"fresh"})

C3_Witness ==
    /\ ran[OneTab] = {"exchange"}
    /\ pc[OneTab] = "awaitToken"
    /\ UrlHasLaunch(OneTab)

\* C4: a load that finds a persisted token, has no code in its URL and made
\* no takeover reuses that token as it is, issues no request and no
\* redirect, and leaves token, issuer and token endpoint in the store alone.
C4_Restoration ==
    \A t \in {OneTab} :
        (pc[t] /= "unloaded" /\ SessionAtDecision(t) /\ ~Truthy(url[t].code)) =>
            /\ pc[t] = "done"
            /\ ran[t] = {"restore"}
            /\ token[t] = JSONparse(before[t].token)
            /\ JSONstringify(token[t]) = before[t].token
            /\ reqs[t] = NoReqs
            /\ nav[t] = NoNav
            /\ err[t] = NULL
            /\ ls.token = before[t].token
            /\ ls.iss = before[t].iss
            /\ ls.tokenEndpoint = before[t].tokenEndpoint

C4_Witness ==
    /\ SessionAtDecision(OneTab)
    /\ pc[OneTab] = "done"
    /\ ~Truthy(url[OneTab].code)
    /\ ~UrlHasLaunch(OneTab)
    /\ token[OneTab].patient = NULL

\* C5: a code exchange whose token POST succeeded ends with the returned
\* payload as the component's token and as the persisted token (the store
\* holds its JSON text, which parses back to it), in place of what the store
\* held before.
C5_CodeExchange ==
    \A t \in {OneTab} :
        (pc[t] = "done" /\ ran[t] = {"exchange"}) =>
            /\ token[t] \in TokenPayloads(url[t].code)
            /\ ls.token = JSONstringify(token[t])
            /\ JSONparse(ls.token) = token[t]
            /\ reqs[t].token = 1
            /\ reqs[t].code = url[t].code
            /\ reqs[t].tokenEndpoint = ls.tokenEndpoint

C5_Witness ==
    /\ pc[OneTab] = "done"
    /\ ran[OneTab] = {"exchange"}
    /\ token[OneTab].access_token /= NULL
    /\ token[OneTab].patient /= NULL

\* a token payload with an access token and a patient id
FullyPopulated(o) == o.access_token /= NULL /\ o.patient /= NULL

\* C6: whenever a token payload is persisted or held as the session, it has
\* both an access token and a patient id.
C6_SessionFullyPopulated ==
    /\ Truthy(ls.token) => FullyPopulated(JSONparse(ls.token))
    /\ \A t \in {OneTab} : TruthyObj(token[t]) => FullyPopulated(token[t])

\* C7: a code exchange that finds no token endpoint persisted ends the load
\* in the fatal error, with no token POST issued and no token persisted.
C7_MissingTokenEndpoint ==
    \A t \in {OneTab} :
        ( /\ pc[t] /= "unloaded"
          /\ ~SessionAtDecision(t)
          /\ Truthy(url[t].code)
          /\ (FoundOtherLaunch(t) \/ ~Truthy(before[t].tokenEndpoint)) ) =>
            /\ pc[t] = "failed"
            /\ err[t] = "Token endpoint is not in local storage."
            /\ reqs[t].token = 0
            /\ reqs[t].discovery = 0
            /\ ls.token = NULL
            /\ token[t] = Undefined
            /\ nav[t] = NoNav

C7_Witness ==
    /\ pc[OneTab] = "failed"
    /\ Truthy(url[OneTab].code)
    /\ ~FoundOtherLaunch(OneTab)
    /\ ~Truthy(before[OneTab].tokenEndpoint)
    /\ Truthy(before[OneTab].iss)

\* the load of tab t needed both launch parameters and lacked one
LackedLaunchParams(t) ==
    /\ pc[t] /= "unloaded"
    /\ ~Truthy(before[t].token)
    /\ ~Truthy(url[t].code)
    /\ ~UrlHasLaunch(t)

\* C8: a load with no persisted session and no code whose URL lacks iss or
\* launch ends in the fatal error, which the page shows to the user, with no
\* discovery request, no redirect and the store as the load found it.
C8_MissingLaunchParams ==
    \A t \in {OneTab} :
        LackedLaunchParams(t) =>
            /\ pc[t] = "failed"
            /\ err[t] = "ISS or Launch parameter is missing."
            /\ Screen(t) = "error"
            /\ reqs[t] = NoReqs
            /\ nav[t] = NoNav
            /\ ls = before[t]

(***************************************************************************)
(* ObservationFeed: properties                                             *)
(***************************************************************************)
windowSize == (currentPage + 1) * itemsPerPage

\* missing dates count as the oldest: descending by effective time
SortedDescending(list) == ServerOrdered(list)

\* C9: in every state the displayed observations are the first windowSize
\* entries of allObservations, windowSize = (currentPage + 1) * itemsPerPage,
\* so that as many are displayed as min(windowSize, Len(allObservations)).
C9_Windowing ==
    /\ displayedObservations =
          SubSeq(allObservations, 1, Min(windowSize, Len(allObservations)))
    /\ Len(displayedObservations) = Min(windowSize, Len(allObservations))

\* the window cuts allObservations short on a later page, after a create
C9_Witness ==
    /\ currentPage >= 1
    /\ Len(allObservations) > windowSize
    /\ Len(displayedObservations) = windowSize
    /\ timers > 0

\* C10: in every state allObservations is sorted descending by effective
\* time (initial fetch, loadMore merge, optimistic create, reconciliation),
\* whatever effective times the server returned.
C10_SortInvariant == SortedDescending(allObservations)

\* an entry the component synthesized (the optimistic update)
IsOptimistic(e) == e.fullUrl = NULL

\* C11: the step in which a POST is answered 2xx puts exactly one new entry
\* at index 0 of allObservations and of displayedObservations; it has the id
\* of the answer when there is one and a temporary client id otherwise, the
\* code text "Temperature Oral" and the parsed value in degC.
C11_OptimisticVisible ==
    [][\A r \in InFlight("create") :
          CreateResponse(r) =>
              LET e == allObservations'[1]
              IN  /\ allObservations' = <<e>> \o allObservations
                  /\ displayedObservations'[1] = e
                  /\ IsOptimistic(e)
                  /\ r.resp.id /= NULL => e.id = r.resp.id
                  /\ r.resp.id = NULL => e.id = "temp-" \o ToString(now')
                  /\ e.text = "Temperature Oral"
                  /\ e.value = r.obs.value /\ e.value = "37.5"
                  /\ e.unit = "degC"
                  /\ e.effectiveDateTime = r.obs.effectiveDateTime]_vars

\* an optimistic entry with the id of the answer leads the feed, ahead of
\* the entries loaded before, its reconciliation not yet run
C11_Witness ==
    /\ timers > 0
    /\ Len(allObservations) >= 2
    /\ IsOptimistic(allObservations[1])
    /\ displayedObservations[1] = allObservations[1]
    /\ \E i \in 1..Len(srv) : srv[i].id = allObservations[1].id
    /\ ~IsOptimistic(allObservations[2])

\* how many times e occurs in the list
Occurrences(e, list) == Cardinality({ i \in 1..Len(list) : list[i] = e })

\* the two lists hold the same entries, each as many times
SameEntries(a, b) ==
    /\ Len(a) = Len(b)
    /\ \A i \in 1..Len(a) : Occurrences(a[i], a) = Occurrences(a[i], b)

\* C12: the delayed re-fetch of a create is sent whatever the cache holds,
\* and the step in which it is answered makes allObservations exactly the
\* entries of the returned bundle (no optimistic entry, no page loaded
\* before), takes the cursor from that bundle and resets currentPage to 0.
C12_Reconciliation ==
    [][ /\ RefreshTimer =>
             \E r \in BagToSet(net') :
                 /\ r.kind = "refresh"
                 /\ net' = net (+) SetToBag({r})
        /\ \A r \in InFlight("refresh") :
             RefreshResponse(r) =>
                 /\ SameEntries(allObservations', r.resp.entry)
                 /\ \A i \in 1..Len(allObservations') :
                        ~IsOptimistic(allObservations'[i])
                 /\ nextUrl' = r.resp.next
                 /\ hasMoreOnServer' = (r.resp.next /= NULL)
                 /\ currentPage' = 0
                 /\ Len(displayedObservations') =
                        Min(itemsPerPage, Len(r.resp.entry)) ]_vars

\* the feed after a reconciliation: the server's copy of a created
\* temperature, no optimistic entry, the window back on the first page
C12_Witness ==
    /\ currentPage = 0
    /\ \E i \in 1..Len(allObservations) :
          allObservations[i].text = "Temperature Oral"
    /\ \A i \in 1..Len(allObservations) : ~IsOptimistic(allObservations[i])
    /\ Len(srv) > Len(allObservations)

\* the temperatures among the entries of the list
Temperatures(list) ==
    { i \in 1..Len(list) : list[i].text = "Temperature Oral" }

\* C13: the step that schedules the reconciliation of a create is the step
\* that has put its optimistic entry at the head of displayedObservations,
\* and the step in which a reconciliation result arrives leaves nothing of
\* the local feed state: every entry of allObservations that the bundle does
\* not hold is gone, optimistic entries of later creates and pages merged by
\* later loadMore calls included.
C13_ReconciliationOrdering ==
    [][ /\ timers' > timers =>
             /\ Len(displayedObservations') > 0
             /\ IsOptimistic(displayedObservations'[1])
             /\ displayedObservations'[1] = allObservations'[1]
             /\ allObservations' = <<allObservations'[1]>> \o allObservations
        /\ \A r \in InFlight("refresh") :
             RefreshResponse(r) =>
                 /\ \A i \in 1..Len(allObservations) :
                        Occurrences(allObservations[i], r.resp.entry) = 0 =>
                            Occurrences(allObservations[i], allObservations') = 0
                 /\ \A i \in 1..Len(displayedObservations') :
                        Occurrences(displayedObservations'[i], r.resp.entry) > 0
                 /\ Len(allObservations') <= ServerCount ]_vars

\* a reconciliation result has superseded the optimistic entry of a later
\* create: the server holds two created temperatures, both POSTs are
\* answered, the reconciliation of the later one is still to come, and the
\* feed holds the server's copy of one and nothing of the other
C13_Witness ==
    /\ Cardinality(Temperatures(srv)) = 2
    /\ ~creating /\ NumInFlight("create") = 0
    /\ timers + NumInFlight("refresh") > 0
    /\ Cardinality(Temperatures(allObservations)) = 1
    /\ \A i \in 1..Len(allObservations) : ~IsOptimistic(allObservations[i])

\* C14: the step in which a POST fails adds no entry and leaves
\* allObservations, displayedObservations, currentPage and the server cursor
\* as they are, schedules no reconciliation and sends nothing, records the
\* error in createError, does not close the form and clears creating.
C14_CreateFailure ==
    [][\A r \in InFlight("create") :
          CreateFailure(r) =>
              /\ allObservations' = allObservations
              /\ displayedObservations' = displayedObservations
              /\ vitalObservations' = vitalObservations
              /\ currentPage' = currentPage
              /\ nextUrl' = nextUrl /\ hasMoreOnServer' = hasMoreOnServer
              /\ timers' = timers
              /\ net' = net (-) SetToBag({r})
              /\ createError' /= NULL
              /\ showCreateForm' = showCreateForm
              /\ creating /\ ~creating']_vars

\* a failed POST behind: the error recorded, the form open, the flag clear,
\* the entries loaded before still there and no reconciliation pending
C14_Witness ==
    /\ createError = "Failed to create temperature observation"
    /\ showCreateForm /\ ~creating
    /\ Len(allObservations) > 0
    /\ timers = 0 /\ NumInFlight("refresh") = 0

\* the texts that are empty or start with no number
UnparseableInputs == {"", "abc"}

C16_WindowGrowth ==
    [][ /\ (LoadMore /\ net' = net) =>
             /\ currentPage' = currentPage + 1
             /\ windowSize' = windowSize + itemsPerPage
        /\ \A r \in InFlight("more") :
             MoreResponse(r) =>
                 /\ currentPage' = currentPage + 1
                 /\ windowSize' = windowSize + itemsPerPage
        /\ (LoadMore \/ \E r \in InFlight("more") :
                            MoreResponse(r) \/ MoreFailure(r))
             => currentPage' >= currentPage ]_vars

\* the window after one loadMore served from memory and one that fetched
C16_Witness ==
    /\ currentPage >= 2
    /\ Len(allObservations) > ServerCount
    /\ Len(displayedObservations) = windowSize
    /\ ~isLoadingMore

\* C17: with no server cursor and no more entries loaded than the window
\* shows, hasMore() is false, and a loadMore sends no request, leaves
\* allObservations and displayedObservations as they are and leaves hasMore()
\* false (so the same holds for the next loadMore).
C17_PaginationTermination ==
    [][ (LoadMore /\ nextUrl = NULL /\ Len(allObservations) <= windowSize) =>
            /\ ~hasMore
            /\ net' = net
            /\ ~isLoadingMore'
            /\ allObservations' = allObservations
            /\ displayedObservations' = displayedObservations
            /\ nextUrl' = NULL
            /\ Len(allObservations') <= windowSize'
            /\ ~hasMore' ]_vars

\* two such loadMore calls behind: the window two pages beyond the entries
C17_Witness ==
    /\ nextUrl = NULL /\ ~hasMore
    /\ Len(allObservations) > 0
    /\ windowSize >= Len(allObservations) + 2 * itemsPerPage
    /\ displayedObservations = allObservations
    /\ net = EmptyBag

\* C18: the step in which the continuation request of a loadMore fails
\* leaves allObservations, displayedObservations, currentPage and the server
\* cursor as they were, and the feed usable: the flag is clear and the same
\* link is still the one a later loadMore follows.
C18_LoadMoreFailure ==
    [][\A r \in InFlight("more") :
          MoreFailure(r) =>
              /\ allObservations' = allObservations
              /\ displayedObservations' = displayedObservations
              /\ currentPage' = currentPage
              /\ nextUrl' = nextUrl /\ hasMoreOnServer' = hasMoreOnServer
              /\ ~isLoadingMore'
              /\ ContentShown' ]_vars

\* C19: at most one continuation request is in flight, and isLoadingMore is
\* set exactly while one is; while it is set the button is disabled and
\* loadMore cannot start, so no second request is sent.
C19_InFlightGuard ==
    /\ NumInFlight("more") <= 1
    /\ isLoadingMore <=> NumInFlight("more") = 1
    /\ isLoadingMore => ~ENABLED LoadMore

\* a continuation request is pending in a state where a loadMore, were it
\* not held back by the flag, would fetch: the window to come exceeds the
\* entries loaded and the cursor is present
C19_Witness ==
    /\ isLoadingMore /\ NumInFlight("more") = 1
    /\ ContentShown /\ hasMoreOnServer /\ nextUrl /= NULL
    /\ currentPage < MaxPage
    /\ Len(allObservations) < (currentPage + 2) * itemsPerPage

\* C20: in every state, before the first fetch has completed and after a
\* failed first fetch included, hasMore() is true exactly when more entries
\* are loaded than the window shows or a server cursor is present.
C20_HasMoreDefinition ==
    hasMore <=> (Len(allObservations) > windowSize \/ nextUrl /= NULL)

\* no entry without a date stands before an entry with one
UndatedLast(list) ==
    \A i, j \in 1..Len(list) :
        (i < j /\ list[i].effectiveDateTime = NoDate) =>
            list[j].effectiveDateTime = NoDate

\* the entries with a date, taken alone, are in non-increasing order
DatedNonIncreasing(list) ==
    \A i, j \in 1..Len(list) :
        ( /\ i < j
          /\ list[i].effectiveDateTime /= NoDate
          /\ list[j].effectiveDateTime /= NoDate ) =>
            list[i].effectiveDateTime >= list[j].effectiveDateTime

\* C21: whenever the feed has sorted the entries it holds (the first fetch,
\* the loadMore merge), the entries without a date stand after every entry
\* with one and the entries with a date are in non-increasing order,
\* wherever the server had put the entries without a date.
C21_MissingDatesSortOldest ==
    /\ UndatedLast(allObservations)
    /\ DatedNonIncreasing(allObservations)

\* C22: a call of getVitals that is not forced, made while a bundle is held
\* and less than CACHE_DURATION after the last successful fetch, sends no
\* request and leaves the held bundle in place; a forced call sends one
\* request, whatever is held and however fresh it is.
C22_FetchCache ==
    [][\A forceRefresh \in BOOLEAN :
          getVitals(forceRefresh) =>
              /\ ( /\ ~forceRefresh
                    /\ vitalObservations /= Undefined
                    /\ now' - lastFetchTime < CACHE_DURATION ) =>
                      /\ served' = "cache"
                      /\ net' = net
                      /\ vitalObservations' = vitalObservations
              /\ forceRefresh =>
                      /\ served' = "network"
                      /\ \E r \in BagToSet(net') :
                             /\ r.kind = "vitals" /\ r.at = now'
                             /\ net' = net (+) SetToBag({r}) ]_vars

\* the last call was served from the cache: entries are held, fetched at
\* this very reading of the clock, and nothing is in flight
C22_Witness ==
    /\ served = "cache"
    /\ vitalObservations /= Undefined
    /\ Len(allObservations) > 0
    /\ now - lastFetchTime < CACHE_DURATION
    /\ net = EmptyBag

\* the positions of the components of that code
Coded(observation, code) ==
    { i \in 1..Len(observation.component) :
        observation.component[i].code = code }

\* the positions of the components of that code that carry a quantity
CodedWithQuantity(observation, code) ==
    { i \in Coded(observation, code) :
        observation.component[i].valueQuantity /= Undefined }

\* the positions of the first component of that code, if it carries a quantity
FirstCodedWithQuantity(observation, code) ==
    { i \in CodedWithQuantity(observation, code) :
        \A j \in Coded(observation, code) : i <= j }

\* "systolic/diastolic unit", the unit of the systolic quantity or "mmHg"
AsBloodPressure(systolic, diastolic) ==
    ToString(systolic.value) \o "/" \o ToString(diastolic.value) \o " " \o
        (IF systolic.unit = NULL THEN "mmHg" ELSE systolic.unit)

\* "value unit", the unit of the quantity or the empty string
AsQuantity(q) ==
    ToString(q.value) \o " " \o (IF q.unit = NULL THEN "" ELSE q.unit)

\* the value a card shows, given the systolic and the diastolic components
\* that count
ValueShown(observation, systolics, diastolics) ==
    IF systolics /= {} /\ diastolics /= {}
    THEN { AsBloodPressure(observation.component[i].valueQuantity,
                           observation.component[j].valueQuantity) :
             i \in systolics, j \in diastolics }
    ELSE IF observation.valueQuantity /= Undefined
    THEN { AsQuantity(observation.valueQuantity) }
    ELSE IF observation.valueString /= NULL
    THEN { observation.valueString }
    ELSE { "Not available" }

\* C23 (as claimed): a card shows "systolic/diastolic unit" (unit "mmHg" by
\* default) when some component coded 8480-6 and some component coded 8462-4
\* carry a quantity; otherwise "value unit" of its valueQuantity (unit ""
\* by default); otherwise its valueString; otherwise "Not available".
C23_ValueFormatting ==
    card.value /= NULL =>
        card.value \in ValueShown(card.observation,
                          CodedWithQuantity(card.observation, SystolicCode),
                          CodedWithQuantity(card.observation, DiastolicCode))

\* C23 (amended): the same, with "the first component coded 8480-6 and the
\* first component coded 8462-4 both carry a quantity" as the first case.
C23_ValueFormattingFirstCoded ==
    card.value /= NULL =>
        card.value \in ValueShown(card.observation,
                          FirstCodedWithQuantity(card.observation, SystolicCode),
                          FirstCodedWithQuantity(card.observation, DiastolicCode))

\* a blood pressure shown with the default unit, ahead of the valueQuantity
\* and the valueString the observation also has
C23_Witness ==
    /\ card.value = "120/80 mmHg"
    /\ card.observation.valueQuantity /= Undefined
    /\ card.observation.valueString /= NULL
    /\ Len(card.observation.component) = 3

\* C24: during and after a load whose URL carries iss and launch the stored
\* launch key is the key of that URL, with or without a takeover and however
\* the load goes on (restore, exchange, redirect, error); during and after a
\* load that lacks one of the two the stored launch key is what the load
\* found.
C24_LaunchKeyPersisted ==
    \A t \in {OneTab} :
        pc[t] /= "unloaded" =>
            /\ UrlHasLaunch(t) =>
                    /\ ls.currentLaunch = UrlKey(t)
                    /\ ls.currentLaunch =
                          url[t].iss \o ":" \o url[t].launch
            /\ ~UrlHasLaunch(t) => ls.currentLaunch = before[t].currentLaunch

\* a first launch (nothing stored, no takeover) whose discovery failed: the
\* key is stored all the same
C24_Witness ==
    /\ pc[OneTab] = "failed"
    /\ UrlHasLaunch(OneTab)
    /\ ~takeover[OneTab]
    /\ before[OneTab].currentLaunch = NULL
    /\ ls.currentLaunch = UrlKey(OneTab)

\* C25: the step that sends the browser to the authorization endpoint is
\* the answer to the discovery request of a fresh authorization: the issuer
\* was persisted before the request, the token endpoint of the discovery
\* document is persisted by that step, and the URL is built from the
\* document's authorization endpoint; a load that has redirected holds no
\* token and shows the loading screen.
C25_FreshAuthorizationOrdering ==
    [][\A t \in {OneTab} :
          /\ (nav'[t] /= NoNav /\ nav'[t] /= nav[t]) =>
                /\ pc[t] = "awaitDiscovery" /\ pc'[t] = "navigated"
                /\ ran[t] = {"fresh"}
                /\ reqs[t].discovery = 1 /\ reqs[t].token = 0
                /\ ls.iss = url[t].iss /\ ls'.iss = url[t].iss
                /\ ls'.tokenEndpoint = TokenEndpointOf(url[t].iss)
                /\ nav'[t].endpoint = AuthorizationEndpointOf(url[t].iss)
                /\ nav'[t].aud = url[t].iss
                /\ nav'[t].launch = url[t].launch
          /\ nav'[t] /= NoNav =>
                /\ pc'[t] = "navigated"
                /\ token'[t] = Undefined
                /\ ls'.token = NULL
                /\ Screen(t)' = "loading" ]_vars

\* a redirect after a takeover: the token endpoint of the new issuer has
\* replaced the one the load found
C25_Witness ==
    /\ pc[OneTab] = "navigated"
    /\ nav[OneTab] /= NoNav
    /\ takeover[OneTab]
    /\ Truthy(before[OneTab].tokenEndpoint)
    /\ before[OneTab].tokenEndpoint /= ls.tokenEndpoint
    /\ ls.tokenEndpoint = TokenEndpointOf(url[OneTab].iss)
    /\ ls.iss = url[OneTab].iss

\* the load of tab t ended because a request of its own failed
RequestFailed(t) ==
    /\ pc[t] = "failed"
    /\ err[t] \in {"token request failed", "discovery request failed"}

\* C26: a load sends at most one discovery request and at most one token
\* request; when that request fails the load has ended in the error, holds
\* no token, has persisted none and has not redirected, and the request is
\* not sent again.
C26_LaunchNetworkFailures ==
    \A t \in {OneTab} :
        /\ reqs[t].discovery + reqs[t].token <= 1
        /\ RequestFailed(t) =>
              /\ reqs[t].discovery + reqs[t].token = 1
              /\ err[t] = "token request failed" <=> reqs[t].token = 1
              /\ token[t] = Undefined
              /\ Screen(t) /= "content"
              /\ ls.token = NULL
              /\ nav[t] = NoNav
              /\ ~ENABLED TokenResponse(t) /\ ~ENABLED TokenFailure(t)
              /\ ~ENABLED DiscoveryResponse(t) /\ ~ENABLED DiscoveryFailure(t)

\* a code exchange whose POST failed: the endpoint was there, the token is not
C26_Witness ==
    /\ RequestFailed(OneTab)
    /\ err[OneTab] = "token request failed"
    /\ Truthy(ls.tokenEndpoint)
    /\ reqs[OneTab].tokenEndpoint = ls.tokenEndpoint
    /\ UrlHasLaunch(OneTab)

\* C27: a loadMore sends the continuation request exactly when fewer
\* entries are loaded than the window to come holds and a server cursor is
\* present; the step in which the request is answered puts every returned
\* entry into allObservations beside those it held, leaves the result sorted
\* descending by effective time whenever the entries held and the entries
\* returned were each sorted so, and sets the cursor to the next link of the
\* answer (none: no cursor).
C27_LoadMoreFetchAndMerge ==
    [][ /\ LoadMore =>
             ( net' /= net <=>
                 /\ Len(allObservations) < (currentPage + 2) * itemsPerPage
                 /\ nextUrl /= NULL )
        /\ \A r \in InFlight("more") :
             MoreResponse(r) =>
                 /\ SameEntries(allObservations',
                                allObservations \o getVitalsEntries(r.resp))
                 /\ ( /\ SortedDescending(allObservations)
                      /\ SortedDescending(getVitalsEntries(r.resp)) ) =>
                        SortedDescending(allObservations')
                 /\ nextUrl' = nextLinkOf(r.resp)
                 /\ hasMoreOnServer' = (nextUrl' /= NULL) ]_vars

\* the ids of the entries of the list
Ids(list) == { list[i].id : i \in 1..Len(list) }

\* the step adds entries the way the feed is filled: the first fetch, a
\* fetch-more, a create
FillsFeed ==
    \/ \E r \in InFlight("vitals") : InitialResponse(r)
    \/ \E r \in InFlight("more") : MoreResponse(r)
    \/ \E r \in InFlight("create") : CreateResponse(r)

\* C28 (as claimed): no step of the session, a reconciliation included,
\* takes an entry out of allObservations, and entries only come in by the
\* first fetch, a fetch-more or a create.
C28_EntriesNeverRemoved ==
    [][ /\ Ids(allObservations) \subseteq Ids(allObservations')
        /\ Ids(allObservations') /= Ids(allObservations) => FillsFeed ]_vars

\* C28 (amended): no step other than the arrival of a reconciliation result
\* takes an entry out of allObservations, and apart from that arrival
\* entries only come in by the first fetch, a fetch-more or a create.
C28_EntriesKeptUntilReconciliation ==
    [][ \/ \E r \in InFlight("refresh") : RefreshResponse(r)
        \/ /\ Ids(allObservations) \subseteq Ids(allObservations')
           /\ Len(allObservations') >= Len(allObservations)
           /\ Ids(allObservations') /= Ids(allObservations) => FillsFeed ]_vars

\* a created temperature, reconciled, and a page merged by loadMore after
\* it: all of them still held
C28_Witness ==
    /\ Len(allObservations) > ServerCount
    /\ Temperatures(allObservations) /= {}
    /\ \A i \in 1..Len(allObservations) : ~IsOptimistic(allObservations[i])
    /\ Ids(allObservations) = Ids(srv)
    /\ currentPage >= 1

\* the template shows the feed-level error: {:else if error}
ErrorShown == ~loading /\ error /= NULL

\* C29: the step in which the first fetch fails records the feed-level
\* error and ends the loading state, so that the template shows the error;
\* and no step of the feed (first fetch, loadMore, create, reconciliation,
\* answered or failed) changes the persisted session store, the token the
\* page holds or its base URL.
C29_FeedErrorsScoped ==
    [][ /\ ls' = ls
        /\ token' = token
        /\ baseUrl' = baseUrl
        /\ \A r \in InFlight("vitals") :
             InitialFailure(r) =>
                 /\ loading /\ ~loading'
                 /\ error = NULL /\ error' /= NULL
                 /\ ErrorShown' /\ ~ContentShown'
                 /\ vitalObservations' = Undefined ]_vars

\* the first fetch has failed and the session is as it was: persisted, held
\* by the page, the content screen up
C29_Witness ==
    /\ ErrorShown
    /\ net = EmptyBag
    /\ Truthy(ls.token)
    /\ TruthyObj(token[OneTab])
    /\ JSONparse(ls.token) = token[OneTab]
    /\ Screen(OneTab) = "content"

\* C30: whenever a page shows the viewer (the feed is mounted and sends
\* requests), its token has an access token and a patient id, and its base
\* URL is defined.
C30_FeedActivation ==
    \A t \in {OneTab} :
        Screen(t) = "content" =>
            /\ FullyPopulated(token[t])
            /\ Truthy(baseUrl[t])

\* C31: the step that sends the browser away sends it to the discovered
\* authorization endpoint with response_type=code, aud the iss parameter and
\* launch the launch parameter of the load that redirects; and the token POST
\* of the load the browser comes back with sends the client_id and the
\* redirect_uri of that URL (with the code of its own URL, as an
\* authorization_code grant).
C31_AuthorizationUrlBinding ==
    [][\A t \in {OneTab} :
          /\ (nav'[t] /= NoNav /\ nav'[t] /= nav[t]) =>
                /\ nav'[t].endpoint = AuthorizationEndpointOf(url[t].iss)
                /\ nav'[t].response_type = "code"
                /\ nav'[t].aud = url[t].iss
                /\ nav'[t].launch = url[t].launch
                /\ Truthy(nav'[t].aud) /\ Truthy(nav'[t].launch)
          /\ (nav[t] /= NoNav /\ pc'[t] = "awaitToken") =>
                /\ reqs'[t].token = 1
                /\ reqs'[t].body.client_id = nav[t].client_id
                /\ reqs'[t].body.redirect_uri = nav[t].redirect_uri
                /\ reqs'[t].body.code = url'[t].code
                /\ reqs'[t].body.grant_type = "authorization_code"
                /\ reqs'[t].tokenEndpoint = TokenEndpointOf(nav[t].aud) ]_vars

\* the token POST of a return load is out: the load carries a code and no
\* launch parameters, and found the issuer, the token endpoint of that
\* issuer and a launch key of that issuer stored, and no token
C31_Witness ==
    /\ pc[OneTab] = "awaitToken"
    /\ reqs[OneTab].body = tokenRequestBody(url[OneTab].code)
    /\ ~UrlHasLaunch(OneTab)
    /\ Truthy(before[OneTab].iss)
    /\ before[OneTab].tokenEndpoint = TokenEndpointOf(before[OneTab].iss)
    /\ \E l \in LaunchValues :
          before[OneTab].currentLaunch = currentLaunchKey(before[OneTab].iss, l)

\* C32: whenever a token is persisted, an issuer, a token endpoint and a
\* launch key are persisted with it, in every state of every sequence of
\* page loads of one tab.
C32_StoreCoherence ==
    Truthy(ls.token) =>
        /\ Truthy(ls.iss)
        /\ Truthy(ls.tokenEndpoint)
        /\ Truthy(ls.currentLaunch)

\* a persisted session restored by a load that names its launch again
C32_Witness ==
    /\ Truthy(ls.token)
    /\ pc[OneTab] = "done" /\ ran[OneTab] = {"restore"}
    /\ UrlHasLaunch(OneTab)
    /\ ls.currentLaunch = UrlKey(OneTab)
    /\ ls.tokenEndpoint = TokenEndpointOf(ls.iss)

\* C33: with two tabs on one store, in every state a persisted token is a
\* token of the persisted issuer, the persisted launch key is a launch of
\* that issuer, and every token POST carries its code to the token endpoint
\* of the issuer whose authorization server issued the code.
C33_NoStaleSession ==
    /\ Truthy(ls.token) =>
          /\ Truthy(ls.iss)
          /\ ls.token \in
                { JSONstringify(p) :
                    p \in TokenPayloads(AuthorizationCode([aud |-> ls.iss])) }
          /\ \E l \in Launches :
                 l.iss = ls.iss /\ ls.currentLaunch = currentLaunchKey(l.iss, l.launch)
    /\ \A t \in Tabs :
          reqs[t].token > 0 =>
              \E l \in Launches :
                  /\ reqs[t].code = AuthorizationCode([aud |-> l.iss])
                  /\ reqs[t].tokenEndpoint = TokenEndpointOf(l.iss)

\* C34: whatever the store held, a launch load whose discovery request is
\* out leads to the session of that launch: the page shows the content with
\* the token its code was exchanged for, and that token, the launch key and
\* the issuer of the launch are persisted.
C34_LaunchLiveness ==
    \A l \in Launches :
        ( /\ pc[OneTab] = "awaitDiscovery"
          /\ url[OneTab].iss = l.iss /\ url[OneTab].launch = l.launch )
        ~> ( /\ pc[OneTab] = "done"
             /\ ran[OneTab] = {"exchange"}
             /\ Screen(OneTab) = "content"
             /\ token[OneTab] \in
                   TokenPayloads(AuthorizationCode([aud |-> l.iss]))
             /\ ls.token = JSONstringify(token[OneTab])
             /\ ls.currentLaunch = currentLaunchKey(l.iss, l.launch)
             /\ ls.iss = l.iss
             /\ baseUrl[OneTab] = l.iss )

\* the session at the end of a handshake
C34_Witness ==
    /\ pc[OneTab] = "done"
    /\ ran[OneTab] = {"exchange"}
    /\ Screen(OneTab) = "content"
    /\ FullyPopulated(token[OneTab])
    /\ ls.token = JSONstringify(token[OneTab])
    /\ reqs[OneTab].tokenEndpoint = TokenEndpointOf(ls.iss)

\* C35: the step in which the last outstanding reconciliation result
\* arrives (no timer pending, no other re-fetch and no create in flight)
\* leaves allObservations with exactly the entries of the first page the
\* server holds at that moment, every accepted temperature on that page
\* included, however many creates there were and in whatever order their
\* results arrived.
C35_LastReconciliationWins ==
    [][\A r \in InFlight("refresh") :
          ( /\ RefreshResponse(r)
            /\ timers = 0 /\ NumInFlight("refresh") = 1
            /\ NumInFlight("create") = 0 ) =>
              /\ SameEntries(allObservations', ServerPage(0).entry)
              /\ \A i \in Temperatures(ServerPage(0).entry) :
                     ServerPage(0).entry[i].id \in Ids(allObservations') ]_vars

\* the entries of allObservations that came from the server are, each once,
\* the entries the server holds from its first one up to the one the cursor
\* stands behind (all of them when there is no cursor)
CursorCoherent ==
    LET fetched == SelectSeq(allObservations, LAMBDA e : ~IsOptimistic(e))
        upTo == IF nextUrl = NULL THEN Len(srv) ELSE OffsetOf(nextUrl)
    IN  /\ Len(fetched) = upTo
        /\ Cardinality(Ids(fetched)) = Len(fetched)
        /\ Ids(fetched) = Ids(SubSeq(srv, 1, Min(upTo, Len(srv))))

\* C36: the step in which the answer of a continuation request arrives,
\* whatever has arrived while it was in flight (a reconciliation result
\* included), keeps the fetched entries and the cursor coherent: if no
\* create and no reconciliation is outstanding and the fetched entries were
\* the server's pages up to the cursor before it, they are so after it,
\* with no page skipped and none merged twice.
C36_CursorCoherence ==
    [][\A r \in InFlight("more") :
          ( /\ MoreResponse(r)
            /\ CursorCoherent
            /\ NumInFlight("create") = 0 /\ NumInFlight("refresh") = 0
            /\ timers = 0 ) => CursorCoherent']_vars

\* C37: over a server of finitely many pages whose answers all arrive,
\* loadMore clicked while hasMore() is true leads to hasMore() false; and
\* whenever hasMore() is false allObservations holds every entry of the
\* server exactly once and displayedObservations shows all of them.
C37_PaginationProgress ==
    /\ <>(~hasMore)
    /\ [](~hasMore =>
             /\ Len(allObservations) = Len(srv)
             /\ Ids(allObservations) = Ids(srv)
             /\ displayedObservations = allObservations)

\* the end of a feed of three pages: nothing more to load, all shown
C37_Witness ==
    /\ ~hasMore
    /\ currentPage >= 2
    /\ Len(srv) > ServerCount
    /\ displayedObservations = allObservations
    /\ Len(allObservations) = Len(srv)

\* C38: isLoadingMore is set exactly while a continuation request is
\* pending and creating exactly while a create POST is pending; as every
\* request completes, answered or failed, a set flag is cleared again.
C38_FlagsClear ==
    /\ [](isLoadingMore <=> NumInFlight("more") > 0)
    /\ [](creating <=> NumInFlight("create") > 0)
    /\ isLoadingMore ~> ~isLoadingMore
    /\ creating ~> ~creating

\* both flags clear after a failed create and a page fetched by loadMore,
\* with nothing in flight
C38_Witness ==
    /\ ~creating /\ ~isLoadingMore
    /\ createError = "Failed to create temperature observation"
    /\ Len(allObservations) > ServerCount
    /\ NumInFlight("create") = 0 /\ NumInFlight("more") = 0

\* C39: when the delayed re-fetch after a create fails, the feed state is
\* as it was: allObservations and displayedObservations (the optimistic
\* entry at its place), the held bundle, the window, the server cursor and
\* the cache timestamp keep their values.
C39_FailedReconciliation ==
    [][\A r \in InFlight("refresh") :
          RefreshFailure(r) =>
              /\ UNCHANGED <<allObservations, displayedObservations,
                             vitalObservations, currentPage, nextUrl,
                             hasMoreOnServer, lastFetchTime>>
              /\ \A i \in 1..Len(allObservations) :
                     IsOptimistic(allObservations[i]) =>
                         /\ i <= Len(allObservations')
                         /\ allObservations'[i] = allObservations[i]]_vars

\* the reconciliation has failed: an optimistic entry is still in the feed
\* though no POST, no timer and no re-fetch is pending
C39_Witness ==
    /\ \E i \in 1..Len(allObservations) : IsOptimistic(allObservations[i])
    /\ \E i \in 1..Len(displayedObservations) : IsOptimistic(displayedObservations[i])
    /\ timers = 0
    /\ NumInFlight("refresh") = 0 /\ NumInFlight("create") = 0

====
